---- MODULE Spec2Model ----
(***************************************************************************)
(* Model of ubucount.py: the generation Counter, the Simulator's clients   *)
(* and State.update_from_log over an sqlite database.                      *)
(***************************************************************************)
EXTENDS Integers, Sequences, FiniteSets, TLC

(* ------------------------------ bounds -------------------------------- *)
NClients == 3
MaxGen == 3
MaxTime == 3
MaxLines == 2
DayLen == 2
MaxCalls == 4
SimUnreliable == 2
SimReliable == 1
SimStale == 1
SimStaleUnreliable == 1
SimLong == 2
SimShort == 1
SimStaleTicks == 2

Clients == 1..NClients
Channels == {"a", "b"}

VARIABLES
  counters,         \* Simulator.counter.counters (bucket g is element g+1)
  clients,          \* Simulator.clients: per client its generation and history
  sim,              \* position of Simulator.test: phase, iteration, client
  calls,            \* the generations passed to Counter.add by a direct caller
  db,               \* the committed sqlite database file
  txn,              \* the connection's view: db plus uncommitted statements
  log,              \* the Apache log file
  pc,               \* position of the process in main()/update_from_log
  idx,              \* number of log lines already consumed by the for loop
  last_update,      \* local variable last_update
  channel_counters, \* local variable channel_counters
  stats,            \* local variable stats
  hist              \* bookkeeping about the runs, read only by the properties

vars == <<counters, clients, sim, calls, db, txn, log, pc, idx, last_update,
          channel_counters, stats, hist>>
counterVars == <<counters, clients, sim, calls>>
stateVars == <<db, txn, log, pc, idx, last_update, channel_counters, stats, hist>>

(* ------------------------------ Counter ------------------------------- *)
RECURSIVE SumSeq(_)
SumSeq(s) == IF s = <<>> THEN 0 ELSE Head(s) + SumSeq(Tail(s))

Zeros(n) == [i \in 1..n |-> 0]

\* Counter.count: reduce(operator.__add__, self.counters); reduce() of an
\* empty list without an initial value raises TypeError
CountRaises(cs) == cs = <<>>
Count(cs) == SumSeq(cs)

\* self.counters += [0] * need_counters  ([0] * n is [] for n <= 0)
Grow(cs, generation) ==
  LET need_counters == generation + 1 - Len(cs)
  IN IF need_counters > 0 THEN cs \o Zeros(need_counters) ELSE cs

\* Python list index: a negative index counts from the end; out of range raises
PyIndex(cs, i) == IF i < 0 THEN Len(cs) + i + 1 ELSE i + 1
IndexError(cs, i) == PyIndex(cs, i) < 1 \/ PyIndex(cs, i) > Len(cs)

\* Counter.add raises IndexError exactly when counters[generation] does
AddRaises(cs, generation) == IndexError(Grow(cs, generation), generation)

AddMoveAlways(cs, generation) ==
  LET g == Grow(cs, generation)
      moved == IF generation > 0
               THEN [g EXCEPT ![generation] = @ - 1]
               ELSE g
      k == PyIndex(g, generation)
  IN [moved EXCEPT ![k] = @ + 1]

AddAlwaysNew(cs, generation) ==
  LET g == Grow(cs, generation)
      k == PyIndex(g, generation)
  IN [g EXCEPT ![k] = @ + 1]

\* Counter.add (defined where it does not raise)
Add(cs, generation) ==
  LET g == Grow(cs, generation)
      moved == IF generation > 0 /\ g[generation] > 0
               THEN [g EXCEPT ![generation] = @ - 1]
               ELSE g
      k == PyIndex(g, generation)
  IN [moved EXCEPT ![k] = @ + 1]

(* --------------------------- Simulator clients ------------------------ *)
\* TestClient.__init__: generation 0; first/last record what was reported
NewClient == [generation |-> 0, first |-> -1, last |-> -1, resent |-> 0]

\* TestClient.increment
Increment(c) == [c EXCEPT !.generation = @ + 1]

\* Simulator.iterate, one client whose test() is true:
\* self.counter.add(client.increment())
Report(i) ==
  /\ clients[i].generation <= MaxGen
  /\ counters' = Add(counters, clients[i].generation)
  /\ clients' = [clients EXCEPT
                   ![i] = [Increment(@) EXCEPT
                             !.first = IF clients[i].first = -1
                                       THEN clients[i].generation ELSE @,
                             !.last = clients[i].generation]]
  /\ UNCHANGED <<sim, calls>>
  /\ UNCHANGED stateVars

\* A client that reports the generation of its last report once more (its
\* previous report was counted, it did not learn so and did not increment);
\* one such report per behaviour keeps count() bounded
Resend(i) ==
  /\ clients[i].first # -1
  /\ \A j \in Clients : clients[j].resent = 0
  /\ counters' = Add(counters, clients[i].last)
  /\ clients' = [clients EXCEPT ![i].resent = @ + 1]
  /\ UNCHANGED <<sim, calls>>
  /\ UNCHANGED stateVars

\* A client that increments without phoning home (Simulator.test, stale
\* clients): only before its first report
Stale(i) ==
  /\ clients[i].first = -1
  /\ clients[i].generation < MaxGen
  /\ clients' = [clients EXCEPT ![i] = Increment(@)]
  /\ UNCHANGED <<counters, sim, calls>>
  /\ UNCHANGED stateVars

\* Counter.add called directly with any generation; a call that raises
\* leaves the list as it was (for generation < 0 nothing is appended)
AddCall(g) ==
  /\ Len(calls) < MaxCalls
  /\ calls' = Append(calls, g)
  /\ counters' = IF AddRaises(counters, g) THEN counters ELSE Add(counters, g)
  /\ UNCHANGED <<clients, sim>>
  /\ UNCHANGED stateVars

(* --------------------------- Simulator.test --------------------------- *)
\* Scaled down: SimUnreliable for the 50 clients of line 74, SimLong for the
\* 100 iterations of line 77, SimReliable for the 20 clients of line 80,
\* SimStale and SimStaleUnreliable for the 30 clients of lines 86 and 96,
\* SimStaleTicks for their 30 rounds, SimShort for the 25 iterations of lines
\* 83, 93 and 104.
Sim0 == [phase |-> 0, iter |-> 0, pos |-> 1, asserted |-> "none"]

\* TestClient() and RandomFailureClient(error_rate) with a generation
SimClient(kind, gen) == [NewClient EXCEPT !.generation = gen] @@ [kind |-> kind]

\* client.test(): always True for a TestClient; random.randint(0,100) >
\* self.error_rate can be True or False for every error_rate in 0..50
TestResults(c) == IF c.kind = "random" THEN BOOLEAN ELSE {TRUE}

Iterations(phase) == IF phase = 1 THEN SimLong ELSE SimShort

\* the clients each phase of Simulator.test adds to self.clients
Joining(phase) ==
  IF phase = 1 THEN {[i \in 1..SimUnreliable |-> SimClient("random", 0)]}
  ELSE IF phase = 2 THEN {[i \in 1..SimReliable |-> SimClient("test", 0)]}
  ELSE IF phase = 3 THEN {[i \in 1..SimStale |-> SimClient("test", SimStaleTicks)]}
  ELSE {[i \in 1..SimStaleUnreliable |-> SimClient("random", g[i])] :
          g \in [1..SimStaleUnreliable -> 0..SimStaleTicks]}

\* lines 74, 80, 86-90, 96-101: self.clients.extend(...)
SimExtend ==
  /\ sim.phase < 4
  /\ sim.iter = (IF sim.phase = 0 THEN 0 ELSE Iterations(sim.phase))
  /\ \E new \in Joining(sim.phase + 1) : clients' = clients \o new
  /\ sim' = [sim EXCEPT !.phase = @ + 1, !.iter = 0, !.pos = 1]
  /\ UNCHANGED <<counters, calls>>
  /\ UNCHANGED stateVars

\* Simulator.iterate: one client of one iteration (lines 45-47)
SimIterate ==
  /\ sim.phase \in 1..4
  /\ sim.iter < Iterations(sim.phase)
  /\ \E ok \in TestResults(clients[sim.pos]) :
       IF ok
       THEN /\ counters' = Add(counters, clients[sim.pos].generation)
            /\ clients' = [clients EXCEPT
                  ![sim.pos] = [Increment(@) EXCEPT
                       !.first = IF clients[sim.pos].first = -1
                                 THEN clients[sim.pos].generation ELSE @,
                       !.last = clients[sim.pos].generation]]
       ELSE UNCHANGED <<counters, clients>>
  /\ sim' = IF sim.pos < Len(clients)
            THEN [sim EXCEPT !.pos = @ + 1]
            ELSE [sim EXCEPT !.pos = 1, !.iter = @ + 1]
  /\ UNCHANGED calls
  /\ UNCHANGED stateVars

\* line 107: assert self.counter.count() == len(self.clients)
SimAssert ==
  /\ sim.phase = 4
  /\ sim.iter = Iterations(4)
  /\ sim' = [sim EXCEPT !.phase = 5,
                        !.asserted = IF CountRaises(counters) THEN "TypeError"
                                     ELSE IF Count(counters) = Len(clients) THEN "passed"
                                     ELSE "AssertionError"]
  /\ UNCHANGED <<counters, clients, calls>>
  /\ UNCHANGED stateVars

(* ------------------------- text conversions --------------------------- *)
MaxSecond(a, b) == b

Max(a, b) == IF a >= b THEN a ELSE b

Digit == <<"0", "1", "2", "3", "4", "5", "6", "7", "8", "9">>

\* '%d' % n / repr(n) for the small integers of the model
IntText(n) == IF n < 0 THEN "-" \o Digit[1 - n] ELSE Digit[n + 1]

IntTexts == {IntText(n) : n \in -9..9}

\* int(s) raises ValueError unless s is the text of an integer
IntRaises(s) == s \notin IntTexts
ParseInt(s) == CHOOSE n \in -9..9 : IntText(n) = s

\* time.strptime(m.group(1), '%d/%b/%Y:%H:%M:%S') raises ValueError on a field
\* that does not fit the format; time.mktime gives the seconds of a fitting one
TimeRaises(field) == IntRaises(field)
ParseTime(field) == ParseInt(field)

\* time.strftime('%Y-%m-%d', time.localtime(timestamp)): the calendar day
Date(timestamp) == timestamp \div DayLen

RECURSIVE Join(_)
Join(cs) ==
  IF cs = <<>> THEN <<>>
  ELSE IF Len(cs) = 1 THEN <<IntText(cs[1])>>
  ELSE <<IntText(cs[1]), ",">> \o Join(Tail(cs))

\* repr(counters.counters): the text "[1, 0, 2]" as its tokens
Repr(cs) == <<"[">> \o Join(cs) \o <<"]">>

\* eval(counter_str, {}, {}) of such a text
Eval(text) ==
  LET inner == SubSeq(text, 2, Len(text) - 1)
      nums == SelectSeq(inner, LAMBDA t : t # ",")
  IN [i \in 1..Len(nums) |-> ParseInt(nums[i])]

\* urlparse.parse_qs: key -> list of its non-blank values, in order
ParseQs(query) ==
  LET kept == SelectSeq(query, LAMBDA p : p[2] # "")
      keys == {kept[i][1] : i \in 1..Len(kept)}
  IN [k \in keys |->
        LET mine == SelectSeq(kept, LAMBDA p : p[1] = k)
        IN [i \in 1..Len(mine) |-> mine[i][2]]]

(* ------------------------------ database ------------------------------ *)
Put(f, k, v) == [x \in DOMAIN f \cup {k} |-> IF x = k THEN v ELSE f[x]]
Override(f, g) == [x \in DOMAIN f \cup DOMAIN g |-> IF x \in DOMAIN g THEN g[x] ELSE f[x]]

\* no file at dbpath
NoDb == [exists |-> FALSE, last_update |-> 0, counters |-> <<>>, history |-> {}]

\* State.__init__ on a fresh path: empty tables, last_update row 0.0
CreatedDb == [exists |-> TRUE, last_update |-> 0, counters |-> <<>>, history |-> {}]

ReadLastUpdateZero(d) == 0

CountersFromDbNone(d) == <<>>

\* SELECT timestamp FROM last_update; fetchone()[0]
ReadLastUpdate(d) == d.last_update

\* State._counters_from_db
CountersFromDb(d) == [ch \in DOMAIN d.counters |-> Eval(d.counters[ch])]

\* State._counters_to_db: DELETE FROM counters, then one INSERT per channel
CountersToDb(d, map) == [d EXCEPT !.counters = [ch \in DOMAIN map |-> Repr(map[ch])]]

\* a row of the history table and its PRIMARY KEY (channel, date)
Row(k, v) == [channel |-> k[1], date |-> k[2], day |-> v[1], count |-> v[2]]
Key(r) == <<r.channel, r.date>>

\* the rows of a history table as the map (channel, date) -> [day, count]
\* that a SELECT filling a dict gives
StatsOf(rows) ==
  [k \in {Key(r) : r \in rows} |->
     LET r == CHOOSE r \in rows : Key(r) = k IN <<r.day, r.count>>]

\* State._current_stats: only the rows of the day of last_update
CurrentStats(d) ==
  LET day == Date(d.last_update)
  IN StatsOf({r \in d.history : r.date = day})

InsertKeep(rows, r) == rows \cup {r}

\* INSERT OR REPLACE INTO history: a row with the same primary key is deleted
InsertOrReplace(rows, r) == {x \in rows : Key(x) # Key(r)} \cup {r}

RECURSIVE InsertAll(_, _, _)
InsertAll(rows, st, keys) ==
  IF keys = {} THEN rows
  ELSE LET k == CHOOSE k \in keys : TRUE
       IN InsertAll(InsertOrReplace(rows, Row(k, st[k])), st, keys \ {k})

\* State._set_current_stats: INSERT OR REPLACE one row per (channel, date)
SetCurrentStats(d, st) == [d EXCEPT !.history = InsertAll(@, st, DOMAIN st)]

\* DELETE FROM last_update; INSERT INTO last_update VALUES (?)
WriteLastUpdate(d, lu) == [d EXCEPT !.last_update = lu]

(* ------------------------------ log lines ----------------------------- *)
\* A line is what census_re and parse_qs see of it: whether the pattern
\* matches, the text of group 1 (the time field) and the key=value pairs of
\* group 2 (the query string).
Query(ch, n) == << <<"dcd", ch>>, <<"count", IntText(n)>> >>

\* channel "a" with the generations of a client's first reports and a negative
\* count, channel "b" with first reports only
GoodQueries == {Query("a", 0), Query("a", 1), Query("b", 0)}
NegativeQueries == {Query("a", -1)}
BadQueries == { << <<"count", "0">> >>,                   \* no dcd
                << <<"dcd", "">>, <<"count", "0">> >>,    \* empty dcd
                << <<"dcd", "a">> >>,                     \* no count
                << <<"dcd", "a">>, <<"count", "x">> >> }  \* count not a number

Lines ==
  [match : {TRUE}, time : {IntText(t) : t \in 1..MaxTime},
   query : GoodQueries \cup NegativeQueries \cup BadQueries]
  \cup {[match |-> FALSE, time |-> "", query |-> <<>>],
        [match |-> TRUE, time |-> "garbage", query |-> Query("a", 0)]}

(* ----------------------- update_from_log, the loop -------------------- *)
\* the except clause of lines 169-175: KeyError for a key parse_qs did not
\* return, ValueError from int(); all three are caught and the line skipped
QueryInvalid(args) ==
  \/ "dcd" \notin DOMAIN args
  \/ "count" \notin DOMAIN args
  \/ IntRaises(args["count"][1])

\* assert len(dcd) > 0: AssertionError is not among the caught exceptions
AssertRaises(args) == args["dcd"][1] = ""

AlreadySeenNever(timestamp, lu) == FALSE

AlreadySeenStrict(timestamp, lu) == timestamp < lu

\* if timestamp <= last_update: continue
AlreadySeen(timestamp, lu) == timestamp <= lu

\* channel_counters.setdefault(dcd, Counter())
CounterOf(cc, dcd) == IF dcd \in DOMAIN cc THEN cc[dcd] ELSE <<>>

\* stats.setdefault(dcd, {}).setdefault(date, [0,0])
StatOf(st, dcd, date) == IF <<dcd, date>> \in DOMAIN st THEN st[<<dcd, date>>] ELSE <<0, 0>>

\* What one pass of the loop body does with a line:
\*   "nomatch" (160-161), "seen" (163-165), "invalid" (173-175),
\*   "applied" (179-184), or the exception that leaves the function
Outcome(lu, cc, line) ==
  IF ~line.match THEN "nomatch"
  ELSE IF TimeRaises(line.time) THEN "ValueError"
  ELSE IF AlreadySeen(ParseTime(line.time), lu) THEN "seen"
  ELSE LET args == ParseQs(line.query) IN
       IF QueryInvalid(args) THEN "invalid"
       ELSE IF AssertRaises(args) THEN "AssertionError"
       ELSE IF AddRaises(CounterOf(cc, args["dcd"][1]), ParseInt(args["count"][1]))
            THEN "IndexError"
       ELSE "applied"

Raises(o) == o \in {"ValueError", "AssertionError", "IndexError"}

\* the loop body, lines 159-184, on the locals (last_update, channel_counters,
\* stats), for a line that raises nothing
LineStep(mem, line) ==
  LET o == Outcome(mem.last_update, mem.channel_counters, line) IN
  IF o \in {"nomatch", "seen"} THEN mem
  ELSE
    LET timestamp == ParseTime(line.time)
        lu == Max(timestamp, mem.last_update)
    IN IF o = "invalid" THEN [mem EXCEPT !.last_update = lu]
       ELSE
         LET args == ParseQs(line.query)
             dcd == args["dcd"][1]
             count == ParseInt(args["count"][1])
             ctr == Add(CounterOf(mem.channel_counters, dcd), count)
             date == Date(timestamp)
             st == StatOf(mem.stats, dcd, date)
         IN [last_update |-> lu,
             channel_counters |-> Put(mem.channel_counters, dcd, ctr),
             stats |-> Put(mem.stats, <<dcd, date>>, <<st[1] + 1, Count(ctr)>>)]

\* lines 151-156: the locals before the loop
LoadMem(d) ==
  [last_update |-> ReadLastUpdate(d),
   channel_counters |-> CountersFromDb(d),
   stats |-> CurrentStats(d)]

\* lines 186-189: the statements of the closing transaction
StoreMem(d, mem) ==
  SetCurrentStats(CountersToDb(WriteLastUpdate(d, mem.last_update),
                               mem.channel_counters), mem.stats)

\* update_from_log as a function of the database and the log: the database
\* after the call (unchanged when the call raises before its commit)
RECURSIVE FoldLines(_, _)
FoldLines(mem, lines) ==
  IF lines = <<>> THEN [raised |-> FALSE, mem |-> mem]
  ELSE IF Raises(Outcome(mem.last_update, mem.channel_counters, Head(lines)))
       THEN [raised |-> TRUE, mem |-> mem]
       ELSE FoldLines(LineStep(mem, Head(lines)), Tail(lines))

UpdateFromLog(d, lines) ==
  LET r == FoldLines(LoadMem(d), lines)
  IN IF r.raised THEN d ELSE StoreMem(d, r.mem)

(* ------------------------- bookkeeping of runs ------------------------ *)
\* hist is read by no action's guard except the bound on the lines written.
\*   written   lines the web server has written so far
\*   outcome   how the last process ended: "none", "committed", "raised", "killed"
\*   db0       the database when the current (or last) run loaded it
\*   fresh     the log has not changed since a run over it committed
\*   rerun     the current (or last) run started with fresh = TRUE
\*   applied   indices of the lines this run passed to Counter.add
\*   raisedAt  index of the line whose processing raised (0: none)
\*   pending   per (channel, date) <<valid triples applied by this run,
\*             count() after its latest triple>>
\*   ingested  the same, summed over the committed runs
\*   done      indices of the lines of the current log file that committed
\*             runs passed to Counter.add
\*   lastTs    per channel, the latest timestamp a committed run applied
Hist0 ==
  [written |-> 0, outcome |-> "none", db0 |-> NoDb, fresh |-> FALSE, rerun |-> FALSE,
   applied |-> {}, raisedAt |-> 0, pending |-> <<>>, ingested |-> <<>>,
   done |-> {}, lastTs |-> <<>>]

\* the log changes: what was recorded about the last run is dropped
Forget(h) ==
  [h EXCEPT !.outcome = "none", !.db0 = NoDb, !.fresh = FALSE, !.rerun = FALSE,
            !.applied = {}, !.raisedAt = 0, !.pending = <<>>]

Merge(ingested, pending) ==
  [k \in DOMAIN ingested \cup DOMAIN pending |->
     IF k \notin DOMAIN pending THEN ingested[k]
     ELSE IF k \notin DOMAIN ingested THEN pending[k]
     ELSE <<ingested[k][1] + pending[k][1], pending[k][2]>>]

\* channel and timestamp of a line that reached Counter.add
ChannelOf(line) == ParseQs(line.query)["dcd"][1]
TimeOf(line) == ParseTime(line.time)

Greatest(S) == CHOOSE x \in S : \A y \in S : x >= y

\* per channel, the latest timestamp among the applied lines
LastApplied(lines, applied) ==
  [c \in {ChannelOf(lines[i]) : i \in applied} |->
     Greatest({TimeOf(lines[i]) : i \in {j \in applied : ChannelOf(lines[j]) = c}})]

\* the process has ended: its locals are gone
NoLocals ==
  /\ idx' = 0
  /\ last_update' = 0
  /\ channel_counters' = <<>>
  /\ stats' = <<>>

Mem == [last_update |-> last_update, channel_counters |-> channel_counters,
        stats |-> stats]

(* ------------------------------- actions ------------------------------ *)
\* main(): state = State(opts.database); __init__ creates and commits the
\* tables when the file does not exist, and touches nothing when it does
Construct ==
  /\ pc = "exit"
  /\ db' = IF db.exists THEN db ELSE CreatedDb
  /\ txn' = db'
  /\ pc' = "constructed"
  /\ hist' = [hist EXCEPT !.outcome = "none", !.db0 = db',
                          !.rerun = hist.fresh, !.applied = {}, !.raisedAt = 0,
                          !.pending = <<>>]
  /\ UNCHANGED <<log, idx, last_update, channel_counters, stats>>
  /\ UNCHANGED counterVars

\* update_from_log, lines 151-156
Load ==
  /\ pc = "constructed"
  /\ last_update' = LoadMem(txn).last_update
  /\ channel_counters' = LoadMem(txn).channel_counters
  /\ stats' = LoadMem(txn).stats
  /\ idx' = 0
  /\ pc' = "loop"
  /\ UNCHANGED <<db, txn, log, hist>>
  /\ UNCHANGED counterVars

\* line 155: a stored counters row that has been damaged on disk does not
\* evaluate, and eval raises out of _counters_from_db
EvalFails ==
  /\ pc = "constructed"
  /\ DOMAIN txn.counters # {}
  /\ pc' = "exit"
  /\ txn' = db
  /\ hist' = [hist EXCEPT !.outcome = "raised"]
  /\ NoLocals
  /\ UNCHANGED <<db, log>>
  /\ UNCHANGED counterVars

\* line 158: open(path) raises IOError when the log cannot be read
OpenFails ==
  /\ pc = "loop"
  /\ idx = 0
  /\ pc' = "exit"
  /\ txn' = db
  /\ hist' = [hist EXCEPT !.outcome = "raised"]
  /\ NoLocals
  /\ UNCHANGED <<db, log>>
  /\ UNCHANGED counterVars

\* one pass of the for loop, lines 158-184
ReadLine ==
  /\ pc = "loop"
  /\ idx < Len(log)
  /\ LET line == log[idx + 1]
         o == Outcome(last_update, channel_counters, line)
     IN IF Raises(o)
        THEN /\ pc' = "exit"
             /\ txn' = db
             /\ hist' = [hist EXCEPT !.outcome = "raised", !.raisedAt = idx + 1]
             /\ NoLocals
        ELSE LET m == LineStep(Mem, line)
                 args == ParseQs(line.query)
                 key == <<args["dcd"][1], Date(ParseTime(line.time))>>
                 old == IF key \in DOMAIN hist.pending THEN hist.pending[key][1] ELSE 0
                 inc == IF ParseInt(args["count"][1]) >= 0 THEN 1 ELSE 0
             IN /\ last_update' = m.last_update
                /\ channel_counters' = m.channel_counters
                /\ stats' = m.stats
                /\ idx' = idx + 1
                /\ hist' = IF o = "applied"
                           THEN [hist EXCEPT
                                   !.applied = @ \cup {idx + 1},
                                   !.pending = Put(@, key,
                                      <<old + inc, Count(m.channel_counters[key[1]])>>)]
                           ELSE hist
                /\ UNCHANGED <<pc, txn>>
  /\ UNCHANGED <<db, log>>
  /\ UNCHANGED counterVars

PublishedAutocommit(d, t) == t

\* what the database file holds after a statement of the transaction has run
\* and before self.db.commit(): sqlite keeps it in the journal, the file as seen
\* by another connection is unchanged
Published(d, t) == d

\* lines 186-187, after the last line
WriteWatermark ==
  /\ pc = "loop"
  /\ idx = Len(log)
  /\ txn' = WriteLastUpdate(txn, last_update)
  /\ db' = Published(db, txn')
  /\ pc' = "counters_to_db"
  /\ UNCHANGED <<log, idx, last_update, channel_counters, stats, hist>>
  /\ UNCHANGED counterVars

\* line 188
WriteCounters ==
  /\ pc = "counters_to_db"
  /\ txn' = CountersToDb(txn, channel_counters)
  /\ db' = Published(db, txn')
  /\ pc' = "set_stats"
  /\ UNCHANGED <<log, idx, last_update, channel_counters, stats, hist>>
  /\ UNCHANGED counterVars

\* line 189
WriteStats ==
  /\ pc = "set_stats"
  /\ txn' = SetCurrentStats(txn, stats)
  /\ db' = Published(db, txn')
  /\ pc' = "commit"
  /\ UNCHANGED <<log, idx, last_update, channel_counters, stats, hist>>
  /\ UNCHANGED counterVars

\* line 190: self.db.commit()
Commit ==
  /\ pc = "commit"
  /\ db' = txn
  /\ pc' = "exit"
  /\ hist' = [hist EXCEPT !.outcome = "committed", !.fresh = TRUE,
                          !.ingested = Merge(@, hist.pending),
                          !.done = @ \cup hist.applied,
                          !.lastTs = Override(@, LastApplied(log, hist.applied))]
  /\ NoLocals
  /\ UNCHANGED <<txn, log>>
  /\ UNCHANGED counterVars

\* the process is killed; the open transaction is rolled back
Kill ==
  /\ pc # "exit"
  /\ pc' = "exit"
  /\ txn' = db
  /\ hist' = [hist EXCEPT !.outcome = "killed"]
  /\ NoLocals
  /\ UNCHANGED <<db, log>>
  /\ UNCHANGED counterVars

\* the web server appends a line to the log between runs
AppendLine ==
  /\ pc = "exit"
  /\ hist.written < MaxLines
  /\ \E line \in Lines : log' = Append(log, line)
  /\ hist' = [Forget(hist) EXCEPT !.written = @ + 1]
  /\ UNCHANGED <<db, txn, pc, idx, last_update, channel_counters, stats>>
  /\ UNCHANGED counterVars

\* the log is rotated: the next run sees a new, empty file
Rotate ==
  /\ pc = "exit"
  /\ log # <<>>
  /\ log' = <<>>
  /\ hist' = [Forget(hist) EXCEPT !.done = {}]
  /\ UNCHANGED <<db, txn, pc, idx, last_update, channel_counters, stats>>
  /\ UNCHANGED counterVars

(* ---------------------------- specifications -------------------------- *)
InitCounter == /\ counters = <<>>
               /\ clients = [i \in Clients |-> NewClient]
               /\ sim = Sim0
               /\ calls = <<>>
InitState == /\ db = NoDb
             /\ txn = NoDb
             /\ log = <<>>
             /\ pc = "exit"
             /\ idx = 0
             /\ last_update = 0
             /\ channel_counters = <<>>
             /\ stats = <<>>
             /\ hist = Hist0

Init == InitCounter /\ InitState

Next ==
  \/ Construct
  \/ Load
  \/ EvalFails
  \/ OpenFails
  \/ ReadLine
  \/ WriteWatermark
  \/ WriteCounters
  \/ WriteStats
  \/ Commit
  \/ Kill
  \/ AppendLine
  \/ Rotate

Spec == Init /\ [][Next]_vars

InitSim == /\ counters = <<>>
           /\ clients = <<>>
           /\ sim = Sim0
           /\ calls = <<>>
           /\ InitState

NextSim == SimExtend \/ SimIterate \/ SimAssert

SpecSim == InitSim /\ [][NextSim]_vars

NextCounter == \E i \in Clients : Report(i) \/ Stale(i)

SpecCounter == Init /\ [][NextCounter]_vars

NextResend == \E i \in Clients : Report(i) \/ Stale(i) \/ Resend(i)

SpecResend == Init /\ [][NextResend]_vars

NextAdd == \E g \in -1..MaxGen : AddCall(g)

SpecAdd == Init /\ [][NextAdd]_vars

(* ------------------------------ properties ---------------------------- *)
Reported == {i \in Clients : clients[i].first # -1}
Finished == pc = "exit" /\ hist.outcome = "committed"

\* the kinds of line the parser is to reject
Unmatched(line) == ~line.match
BadTime(line) == line.match /\ TimeRaises(line.time)
BadQuery(line) == line.match /\ ~TimeRaises(line.time) /\ QueryInvalid(ParseQs(line.query))
Malformed(line) == Unmatched(line) \/ BadTime(line) \/ BadQuery(line)
CountOf(line) == ParseInt(ParseQs(line.query)["count"][1])
NegativeCount(line) == ~Malformed(line) /\ CountOf(line) < 0
ValidTriple(line) == ~Malformed(line) /\ CountOf(line) >= 0

\* C1: when every client reports generation 0 first and then its previous
\* generation plus 1, count() is the number of clients that have reported.
C1_CountIsClients ==
  (Reported # {} /\ \A i \in Reported : clients[i].first = 0)
    => (~CountRaises(counters) /\ Count(counters) = Cardinality(Reported))

C1_Witness ==
  /\ Reported = Clients
  /\ \A i \in Clients : clients[i].first = 0
  /\ \E i, j \in Clients : clients[i].last >= 2 /\ clients[j].last = 0
  /\ Count(counters) = NClients

\* C2: with a first report at any generation and each later report one
\* higher, bucket g holds the number of clients last seen at g, and count()
\* is the number of clients ever seen.
C2_BucketsAreClients ==
  Reported # {} =>
  /\ \A g \in 0..(Len(counters) - 1) :
       counters[g + 1] = Cardinality({i \in Reported : clients[i].last = g})
  /\ Count(counters) = Cardinality(Reported)

\* C3: a second run over the same log, from the database the first run left,
\* leaves watermark, counters and history as the first run left them.
C3_RerunChangesNothing == (Finished /\ hist.rerun) => db = hist.db0

C3_Witness ==
  /\ Finished
  /\ hist.rerun
  /\ hist.written = MaxLines
  /\ Len(log) = MaxLines
  /\ db.last_update > 0
  /\ DOMAIN db.counters # {}
  /\ db.history # {}

\* C4: every valid line newer than the watermark the run started with is
\* applied, whatever the timestamps of the lines before it.
C4_NewerLinesApplied ==
  Finished =>
    \A i \in 1..Len(log) :
      (ValidTriple(log[i]) /\ ParseTime(log[i].time) > hist.db0.last_update)
        => i \in hist.applied

\* C5: until the commit, and after a run that stopped before it, the database
\* is the one the run started from.
C5_NothingBeforeCommit ==
  (pc # "exit" \/ hist.outcome \in {"killed", "raised"}) => db = hist.db0

C5_Witness ==
  /\ pc = "commit"
  /\ db.last_update > 0
  /\ txn.last_update > db.last_update
  /\ txn.counters # db.counters
  /\ txn.history # db.history

\* C6: the stored watermark never decreases, over any sequence of runs.
C6_WatermarkMonotone == [][db'.last_update >= db.last_update]_vars

C6_Witness ==
  /\ Finished
  /\ hist.db0.last_update > 0
  /\ db.last_update > hist.db0.last_update

\* C7: no unmatched line, line with a bad query or line with an unparsable
\* time makes the run raise.
C7_BadLineNeverAborts ==
  hist.raisedAt # 0 => ~Malformed(log[hist.raisedAt])

\* C8: the database after a run is the one a run over the log without its
\* malformed lines would have left.
C8_MalformedChangesNothing ==
  Finished => db = UpdateFromLog(hist.db0, SelectSeq(log, LAMBDA l : ~Malformed(l)))

\* C9: a line with a negative count is not passed to Counter.add and does not
\* make the run raise.
C9_NegativeRejected ==
  \A i \in 1..Len(log) :
    NegativeCount(log[i]) => (i \notin hist.applied /\ hist.raisedAt # i)

\* C10: each history row holds the number of valid triples ingested for its
\* channel and date over all runs, and count() after the latest of them.
C10_HistoryIsIngested == pc = "exit" => StatsOf(db.history) = hist.ingested

(* ------------------------------ Simulator ----------------------------- *)
PhaseEnd == sim.phase \in 1..4 /\ sim.iter = Iterations(sim.phase)

\* C11: in Simulator.test, whatever the unreliable clients' random choices,
\* count() equals the number of clients introduced so far at the end of each
\* of the four phases, and the assertion of line 107 passes.
C11_CountAtPhaseEnds ==
  /\ PhaseEnd => (~CountRaises(counters) /\ Count(counters) = Len(clients))
  /\ sim.phase = 5 => sim.asserted = "passed"

(* ----------------------------- Counter.add ---------------------------- *)
\* bucket k (1-based position of generation k - 1) of cs once the list is
\* long enough for it
Bucket(cs, k) == IF k <= Len(cs) THEN cs[k] ELSE 0

\* the effect C12 gives for add(g), g >= 0: zero-filled up to index g, one
\* taken from a non-empty bucket g - 1, one added to bucket g, rest unchanged
AddEffect(cs, g, out) ==
  /\ Len(out) = Max(Len(cs), g + 1)
  /\ \A k \in 1..Len(out) :
       out[k] = Bucket(cs, k)
                + (IF k = g + 1 THEN 1 ELSE 0)
                - (IF k = g /\ g > 0 /\ Bucket(cs, g) > 0 THEN 1 ELSE 0)

\* C12: Counter.add(g), g >= 0, extends the list with zeros up to index g,
\* decreases counters[g-1] by 1 if g > 0 and it was positive, increases
\* counters[g] by 1 and changes no other bucket; so from empty add(0) gives
\* [1], then add(1) gives [0,1] (count 1), and add(0) twice gives [2]
\* (count 2).
C12_AddEffect ==
  [][/\ \A g \in 0..MaxGen :
          calls' = Append(calls, g) => AddEffect(counters, g, counters')
     /\ Add(<<>>, 0) = <<1>>
     /\ Add(Add(<<>>, 0), 1) = <<0, 1>> /\ Count(<<0, 1>>) = 1
     /\ Add(Add(<<>>, 0), 0) = <<2>> /\ Count(<<2>>) = 2]_vars

\* a call that both fills a gap with zeros and relocates a client
C12_Witness == calls = <<0, 3, 1>> /\ counters = <<0, 1, 0, 1>>

\* C13: a client that is already counted and reports again (its next
\* generation or the same one re-sent) leaves count() unchanged; count() is
\* raised only by a first report or when counters[g-1] was empty.
C13_NoDoubleCount ==
  [][\A i \in Clients :
       clients'[i] # clients[i] =>
         /\ clients[i].first # -1 => SumSeq(counters') = SumSeq(counters)
         /\ SumSeq(counters') > SumSeq(counters) =>
              \/ clients[i].first = -1
              \/ Bucket(counters, clients'[i].last) = 0]_vars

\* C19: every bucket is a non-negative integer, the list never gets shorter,
\* count() never decreases and one add raises it by at most 1.
C19_BucketsMonotone ==
  /\ [](\A k \in 1..Len(counters) : counters[k] \in Nat)
  /\ [][/\ Len(counters') >= Len(counters)
        /\ SumSeq(counters') - SumSeq(counters) \in {0, 1}]_vars

\* the second add(2) found bucket 1 empty and took nothing from it
C19_Witness == calls = <<2, 2>> /\ counters = <<0, 0, 2>>

(* ----------------------- update_from_log, again ----------------------- *)
\* every line the loop would look at carries a time at or before the
\* watermark stored in d
FullySeen(d, lines) ==
  \A i \in 1..Len(lines) :
    lines[i].match =>
      (~TimeRaises(lines[i].time) /\ TimeOf(lines[i]) <= ReadLastUpdate(d))

\* C14: while the log only grows, no line is applied or counted twice: a
\* line at or before the watermark stored when the run started is skipped,
\* and a run over an empty or fully seen log raises nothing and commits the
\* watermark, counters and history it started from.
C14_NoLineTwice ==
  /\ ~Finished => hist.applied \cap hist.done = {}
  /\ \A i \in hist.applied : TimeOf(log[i]) > ReadLastUpdate(hist.db0)
  /\ FullySeen(hist.db0, log) =>
       /\ hist.raisedAt = 0
       /\ hist.applied = {}
       /\ pc = "commit" => txn = hist.db0
       /\ Finished => db = hist.db0

\* the second run over a grown log: line 1 was applied by the first run and
\* is skipped, line 2 is applied now
C14_Witness == pc = "commit" /\ hist.done = {1} /\ hist.applied = {2}

\* C15: State() on a path without a database gives no counters, no history
\* and watermark 0.0, so that the first run skips no valid line as seen;
\* State() on an existing database changes nothing in it.
C15_ConstructFresh ==
  /\ []((Finished /\ hist.db0 = CreatedDb) =>
          \A i \in 1..Len(log) : ValidTriple(log[i]) => i \in hist.applied)
  /\ [][pc' = "constructed" =>
          IF db.exists THEN db' = db
          ELSE /\ db'.exists
               /\ db'.counters = <<>>
               /\ db'.history = {}
               /\ ReadLastUpdate(db') = 0]_vars

\* C16: the adds applied to one channel, within a run and over the committed
\* runs, come in the order of the log and with strictly increasing
\* timestamps.
C16_AppliedInOrder ==
  [][\A i \in hist'.applied \ hist.applied :
       LET c == ChannelOf(log[i])
           ts == TimeOf(log[i])
       IN /\ \A j \in hist.applied : j < i
          /\ c \in DOMAIN hist.lastTs => ts > hist.lastTs[c]
          /\ \A j \in hist.applied :
               ChannelOf(log[j]) = c => TimeOf(log[j]) < ts]_vars

\* a run applies a line to a channel that an earlier, committed run applied
\* a line to
C16_Witness ==
  /\ pc = "loop"
  /\ \E i \in hist.applied : ChannelOf(log[i]) \in DOMAIN hist.lastTs

\* a line whose query names a channel other than c
OtherChannel(line, c) ==
  /\ line.match
  /\ "dcd" \in DOMAIN ParseQs(line.query)
  /\ ParseQs(line.query)["dcd"][1] # c

\* what the store records for channel c
ChannelView(d, c) ==
  [counters |-> IF c \in DOMAIN d.counters THEN <<d.counters[c]>> ELSE <<>>,
   history |-> {r \in d.history : r.channel = c}]

\* C17: what a run records for a channel c is what it would record, from the
\* same store, for the log without the lines of the other channels.
C17_ChannelsIndependent ==
  Finished =>
    \A c \in Channels :
      ChannelView(db, c) =
        ChannelView(UpdateFromLog(hist.db0,
                      SelectSeq(log, LAMBDA l : ~OtherChannel(l, c))), c)

OneRowPerKey(rows) == \A r1, r2 \in rows : Key(r1) = Key(r2) => r1 = r2

\* C18: the history table holds at most one row per (channel, date); a run
\* that ingests lines for a key replaces its row, and the rows of the keys
\* that receive nothing in the run stay exactly as they were.
C18_HistoryRows ==
  /\ OneRowPerKey(db.history)
  /\ OneRowPerKey(txn.history)
  /\ Finished =>
       /\ \A r \in hist.db0.history :
            Key(r) \notin DOMAIN hist.pending => r \in db.history
       /\ \A r \in db.history :
            Key(r) \notin DOMAIN hist.pending => r \in hist.db0.history
       /\ \A k \in DOMAIN hist.pending :
            \E r \in db.history : Key(r) = k /\ r.count = hist.pending[k][2]

\* a run has replaced a row that the database held when it started
C18_Witness ==
  /\ Finished
  /\ \E r \in hist.db0.history :
       Key(r) \in DOMAIN hist.pending /\ r \notin db.history

\* the channels the current run has passed a triple to
Touched == {ChannelOf(log[i]) : i \in hist.applied}

\* C20: a stored channel without a line in the log has the same counters
\* after the run, and a triple for a channel changes that channel's Counter
\* only.
C20_ChannelsPreserved ==
  /\ [](pc \in {"loop", "counters_to_db", "set_stats", "commit"} =>
          /\ DOMAIN channel_counters = DOMAIN hist.db0.counters \cup Touched
          /\ \A c \in DOMAIN hist.db0.counters \ Touched :
               channel_counters[c] = Eval(hist.db0.counters[c]))
  /\ [](Finished =>
          /\ DOMAIN db.counters = DOMAIN hist.db0.counters \cup Touched
          /\ \A c \in DOMAIN hist.db0.counters \ Touched :
               db.counters[c] = hist.db0.counters[c])
  /\ [][(pc = "loop" /\ pc' = "loop") =>
          \A c \in DOMAIN channel_counters' :
            CounterOf(channel_counters', c) # CounterOf(channel_counters, c) =>
              /\ hist'.applied = hist.applied \cup {idx'}
              /\ ChannelOf(log[idx']) = c]_vars

\* a run applied a triple to one channel while another channel was stored
C20_Witness ==
  /\ Finished
  /\ Touched # {}
  /\ DOMAIN hist.db0.counters \ Touched # {}

\* C21: for every channel the stored count is non-decreasing in the date: a
\* later date's row never records fewer machines than an earlier date's row
\* of the same channel, after any sequence of runs.
C21_CountNonDecreasing ==
  \A r1, r2 \in db.history \cup txn.history :
    (r1.channel = r2.channel /\ r1.date < r2.date) => r1.count <= r2.count

\* two committed rows of one channel on different dates, the later one with
\* more machines
C21_Witness ==
  /\ Finished
  /\ \E r1, r2 \in db.history :
       r1.channel = r2.channel /\ r1.date < r2.date /\ r1.count < r2.count

====
